---------------------------- MODULE Spec2Model ----------------------------
(***************************************************************************)
(* Streaming swing detection (SwingDetector) and the websocket session     *)
(* lifecycle of the MacOSTennisAgent backend.                              *)
(*                                                                         *)
(* Units.  Timestamps are integers counting quarter seconds, so the        *)
(* 0.5 s min_peak_interval is 2.  Rotation magnitudes are integers in      *)
(* rad/s, so the 2.0 rad/s threshold is 2.  The window is scaled from      *)
(* 300 samples / min_distance 50 down to BufferSize / MinDistance, keeping *)
(* buffer_size >= 2 * min_distance so that the peak scan can run.          *)
(*                                                                         *)
(* Eight specifications share the detector operators:                      *)
(*   SpecExample   the __main__ example: a stream with one half sine wave, *)
(*                 fed to a fresh detector one sample at a time;           *)
(*   SpecLoop      the endpoint for one session id with its handlers as    *)
(*                 callbacks of the asyncio event loop: messages wait in   *)
(*                 receive queues, process_batch is cut in two steps, and  *)
(*                 GET /api/detector/stats reads the registry;             *)
(*   SpecDetector  one SwingDetector fed batches by the offline driver     *)
(*                 (process_csv_file / the __main__ example);              *)
(*   SpecReplay    a whole recording with relative timestamps, replayed    *)
(*                 into a fresh detector in batches of any size;           *)
(*   Spec          the websocket endpoint: registry, connections and the   *)
(*                 session_start / sensor_batch / session_end handlers,    *)
(*                 started on a database file without tables, so that      *)
(*                 every store call raises and is swallowed;               *)
(*   SpecStore     the same endpoint for one session id on an initialised  *)
(*                 database, where each store call succeeds or fails;      *)
(*   SpecShared    SpecStore for clients that only feed and end the        *)
(*                 session, from several connections;                      *)
(*   SpecReset     a detector that replays a stream and may be reset       *)
(*                 between two batches.                                    *)
(* Wall-clock fields (session_start_time, elapsed_time_seconds,            *)
(* sample_rate_hz) are not modelled.                                       *)
(***************************************************************************)
EXTENDS Integers, Sequences, FiniteSets, Bags, TLC

\* ------------------------------------------------------------------ bounds
\* Most samples the offline driver feeds its detector, over all its calls.
MaxTotal == 7
\* buffer_size (300 in the source), scaled.
BufferSize == 6
\* Most samples the websocket clients send to one session's controller.
MaxSessionSamples == 6
\* Most rows of a recording that is replayed, for recordings of any shape.
MaxRecording == 7
\* Most rows of a replayed recording that holds a single bump.
MaxBump == 10
\* Most rows the shots table takes.
MaxShots == 2
\* Most baseline samples of the example stream before its bump.
MaxLead == 4
\* Most baseline samples of the example stream after its bump.
MaxTail == 4
\* Most samples for one session that wait in the receive queues.
MaxQueued == 6

\* ------------------------------------------------------ detector parameters
\* min_distance (50 in the source), scaled: 3 is the smallest spacing at which
\* the distance rule of find_peaks can remove a peak.
MinDistance == 3
\* threshold, rad/s.
Threshold == 2
\* min_peak_interval, 0.5 s in quarter seconds.
MinPeakInterval == 2

\* rotation magnitudes a sample of the driver's stream can carry: below the
\* threshold and at it.
Magnitudes == {1, 2}
\* each sample's timestamp is the previous sample's plus one of these (the
\* stream need not be monotonic).
TimeSteps == {-1, 1}

\* Python's None
None == "None"
SessionIds == {"s1", "s2"}
Conns == {"c1", "c2"}

VARIABLES
    \* the offline driver
    det,             \* its SwingDetector
    ingested,        \* every sample handed to det.process_batch so far, in order
    emitted,         \* all_detected_swings: every event process_batch returned
    remaining,       \* the samples of the loaded recording not yet fed
    \* the websocket service
    enabled,         \* ENABLE_REALTIME_SWING_DETECTION
    active_sessions, \* the registry: session id -> SwingDetector
    conns,           \* per connection: accepted?, current_session_id, and the
                     \* swings its sensor_batch handler has still to send
    ended,           \* history: the ids a session_end has ended
    received,        \* history: per id, the samples the sensor_batch messages have
                     \* carried to the controller now registered (0 without one)
    last,            \* history: the message handled last, what was sent back
                     \* to the connection it came from, and its store calls
    db,              \* the sqlite database: sessions, raw_sensor_buffer, shots
    db_up,           \* whether the database has its tables
    running,         \* the handler the event loop is executing between two
                     \* awaits, with its locals (empty when the loop is free)
    inbox            \* per connection: the sensor_batch messages sent by the
                     \* client that receive_text has not yet returned

vars == <<det, ingested, emitted, remaining, enabled, active_sessions, conns, ended, received, last,
         db, db_up, running, inbox>>
detVars == <<det, ingested, emitted, remaining>>
loopVars == <<running, inbox>>
srvVars == <<enabled, active_sessions, conns, ended, received, last, db, db_up, loopVars>>

\* ----------------------------------------------------------------- helpers
Max(a, b) == IF a >= b THEN a ELSE b
Min(a, b) == IF a <= b THEN a ELSE b

\* the last n elements of s (all of s when it is shorter)
LastN(s, n) == SubSeq(s, Max(1, Len(s) - n + 1), Len(s))

\* SensorSample: timestamp and the derived rotation_magnitude.
Sample(t, m) == [timestamp |-> t, rotation_magnitude |-> m]

\* ---------------------------------------------------------------- detector
\* SwingDetector.__init__
NewDetector(bs, th, md) ==
    [ buffer_size             |-> bs,
      threshold               |-> th,
      min_distance            |-> md,
      buffer                  |-> << >>,
      last_peak_timestamp     |-> 0,
      min_peak_interval       |-> MinPeakInterval,
      total_samples_processed |-> 0,
      total_peaks_detected    |-> 0 ]

\* DequeExtend with the eviction at the wrong end: a full buffer keeps its
\* oldest samples and drops the new ones.
DequeExtendKeepOldest(buf, samples, n) ==
    SubSeq(buf \o samples, 1, Min(n, Len(buf) + Len(samples)))

\* deque(maxlen=n).extend(samples): append on the right, drop from the left.
DequeExtend(buf, samples, n) == LastN(buf \o samples, n)

\* scipy _local_maxima_1d, 1-based: the midpoints of the plateaus that rise
\* strictly on the left and fall strictly on the right; never the first or
\* the last position.
PlateauEnd(x, i) ==
    CHOOSE e \in i..Len(x) :
        /\ \A k \in i..e : x[k] = x[i]
        /\ (e = Len(x) \/ x[e + 1] # x[i])

LocalMaxima(x) ==
    { (i + PlateauEnd(x, i)) \div 2 :
        i \in { j \in 2..(Len(x) - 1) :
                  /\ x[j - 1] < x[j]
                  /\ PlateauEnd(x, j) < Len(x)
                  /\ x[PlateauEnd(x, j) + 1] < x[j] } }

\* SelectByHeight with a strict comparison: a maximum exactly at h is dropped.
SelectByHeightStrict(x, peaks, h) == { p \in peaks : x[p] > h }

\* SelectByHeight without the comparison: every maximum is kept.
SelectByHeightKeepsAll(x, peaks, h) == peaks

\* find_peaks(height=h): keep the maxima at or above h.
SelectByHeight(x, peaks, h) == { p \in peaks : x[p] >= h }

\* SelectByDistance visiting the peaks from the lowest magnitude up.
RECURSIVE SelectByDistanceLowestFirst(_, _, _, _)
SelectByDistanceLowestFirst(x, keep, todo, d) ==
    LET live == todo \cap keep IN
    IF live = {} THEN {keep}
    ELSE LET low  == CHOOSE m \in {x[p] : p \in live} :
                        \A q \in live : x[q] >= m
             lows == {p \in live : x[p] = low}
         IN UNION { SelectByDistanceLowestFirst(
                        x,
                        {q \in keep : q = j \/ q - j >= d \/ j - q >= d},
                        todo \ {j},
                        d) : j \in lows }

\* scipy _select_by_peak_distance: peaks are visited from the highest
\* priority down; a visited peak that is still kept removes every other peak
\* closer than d.  np.argsort is not a stable sort, so the order among equal
\* magnitudes is not fixed: the result is the set of outcomes over all orders.
RECURSIVE SelectByDistance(_, _, _, _)
SelectByDistance(x, keep, todo, d) ==
    LET live == todo \cap keep IN
    IF live = {} THEN {keep}
    ELSE LET top  == CHOOSE m \in {x[p] : p \in live} :
                        \A q \in live : x[q] <= m
             tops == {p \in live : x[p] = top}
         IN UNION { SelectByDistance(
                        x,
                        {q \in keep : q = j \/ q - j >= d \/ j - q >= d},
                        todo \ {j},
                        d) : j \in tops }

\* find_peaks(magnitudes, height=threshold, distance=min_distance): the
\* possible results, each a set of 1-based positions.
FindPeaks(x, h, d) ==
    LET cand == SelectByHeight(x, LocalMaxima(x), h)
    IN SelectByDistance(x, cand, cand, d)

\* SwingPeak whose snapshot is the sample before the peak.
SwingPeakOffByOne(buf, i) ==
    [ timestamp          |-> buf[i].timestamp,
      peak_index         |-> i,
      rotation_magnitude |-> buf[i].rotation_magnitude,
      sensor_data        |-> buf[i - 1] ]

\* SwingPeak
SwingPeak(buf, i) ==
    [ timestamp          |-> buf[i].timestamp,
      peak_index         |-> i,
      rotation_magnitude |-> buf[i].rotation_magnitude,
      sensor_data        |-> buf[i] ]

\* GateLoop with the assignment to last_peak_timestamp left out.
RECURSIVE GateLoopNoUpdate(_, _, _, _)
GateLoopNoUpdate(d, peaks, from, st) ==
    IF \A p \in peaks : p < from THEN st
    ELSE LET i  == CHOOSE p \in peaks : p >= from /\ \A q \in peaks : q >= from => p <= q
             ts == d.buffer[i].timestamp
         IN IF ts - st.last < d.min_peak_interval
            THEN GateLoopNoUpdate(d, peaks, i + 1, st)
            ELSE GateLoopNoUpdate(d, peaks, i + 1,
                          [ last   |-> st.last,
                            count  |-> st.count + 1,
                            swings |-> Append(st.swings, SwingPeak(d.buffer, i)) ])

\* GateLoop that appends the swing without advancing total_peaks_detected.
RECURSIVE GateLoopNoCount(_, _, _, _)
GateLoopNoCount(d, peaks, from, st) ==
    IF \A p \in peaks : p < from THEN st
    ELSE LET i  == CHOOSE p \in peaks : p >= from /\ \A q \in peaks : q >= from => p <= q
             ts == d.buffer[i].timestamp
         IN IF ts - st.last < d.min_peak_interval
            THEN GateLoopNoCount(d, peaks, i + 1, st)
            ELSE GateLoopNoCount(d, peaks, i + 1,
                          [ last   |-> ts,
                            count  |-> st.count,
                            swings |-> Append(st.swings, SwingPeak(d.buffer, i)) ])

\* GateLoop that moves last_peak_timestamp to a skipped peak's timestamp too.
RECURSIVE GateLoopUpdatesOnSkip(_, _, _, _)
GateLoopUpdatesOnSkip(d, peaks, from, st) ==
    IF \A p \in peaks : p < from THEN st
    ELSE LET i  == CHOOSE p \in peaks : p >= from /\ \A q \in peaks : q >= from => p <= q
             ts == d.buffer[i].timestamp
         IN IF ts - st.last < d.min_peak_interval
            THEN GateLoopUpdatesOnSkip(d, peaks, i + 1, [st EXCEPT !.last = ts])
            ELSE GateLoopUpdatesOnSkip(d, peaks, i + 1,
                          [ last   |-> ts,
                            count  |-> st.count + 1,
                            swings |-> Append(st.swings, SwingPeak(d.buffer, i)) ])

\* GateLoop without the interval test: every peak of the scan is accepted.
RECURSIVE GateLoopNoGate(_, _, _, _)
GateLoopNoGate(d, peaks, from, st) ==
    IF \A p \in peaks : p < from THEN st
    ELSE LET i  == CHOOSE p \in peaks : p >= from /\ \A q \in peaks : q >= from => p <= q
             ts == d.buffer[i].timestamp
         IN GateLoopNoGate(d, peaks, i + 1,
                           [ last   |-> ts,
                             count  |-> st.count + 1,
                             swings |-> Append(st.swings, SwingPeak(d.buffer, i)) ])

\* The loop over peaks (in index order) of process_batch: st carries
\* last_peak_timestamp, total_peaks_detected and detected_swings.
RECURSIVE GateLoop(_, _, _, _)
GateLoop(d, peaks, from, st) ==
    IF \A p \in peaks : p < from THEN st
    ELSE LET i  == CHOOSE p \in peaks : p >= from /\ \A q \in peaks : q >= from => p <= q
             ts == d.buffer[i].timestamp
         IN IF ts - st.last < d.min_peak_interval
            THEN GateLoop(d, peaks, i + 1, st)
            ELSE GateLoop(d, peaks, i + 1,
                          [ last   |-> ts,
                            count  |-> st.count + 1,
                            swings |-> Append(st.swings, SwingPeak(d.buffer, i)) ])

\* SwingDetector.process_batch with find_peaks returning `peaks`:
\* the detector afterwards and the returned list.
ProcessBatchWith(d, samples, peaks) ==
    LET st == GateLoop(d, peaks, 1,
                       [ last   |-> d.last_peak_timestamp,
                         count  |-> d.total_peaks_detected,
                         swings |-> << >> ])
    IN [ det    |-> [d EXCEPT !.last_peak_timestamp = st.last,
                              !.total_peaks_detected = st.count],
         events |-> st.swings ]

\* Appended with the counter set from the buffer's length instead of being
\* advanced by the batch's length.
AppendedCountsBuffer(d, samples) ==
    [d EXCEPT !.buffer = DequeExtend(d.buffer, samples, d.buffer_size),
              !.total_samples_processed =
                  Len(DequeExtend(d.buffer, samples, d.buffer_size))]

\* the detector after the append and the count, before the scan
Appended(d, samples) ==
    [d EXCEPT !.buffer = DequeExtend(d.buffer, samples, d.buffer_size),
              !.total_samples_processed = d.total_samples_processed + Len(samples)]

Magnitudes_of(buf) == [i \in 1..Len(buf) |-> buf[i].rotation_magnitude]

\* ProcessBatch without the early return on a short buffer.
ProcessBatchNoMinimum(d, samples) ==
    IF samples = << >> THEN { [det |-> d, events |-> << >>] }
    ELSE LET a == Appended(d, samples) IN
         { ProcessBatchWith(a, samples, peaks) :
             peaks \in FindPeaks(Magnitudes_of(a.buffer), a.threshold, a.min_distance) }

\* ProcessBatch without the early return on an empty batch.
ProcessBatchScansEmpty(d, samples) ==
    LET a == Appended(d, samples) IN
    IF Len(a.buffer) < a.min_distance * 2
    THEN { [det |-> a, events |-> << >>] }
    ELSE { ProcessBatchWith(a, samples, peaks) :
             peaks \in FindPeaks(Magnitudes_of(a.buffer), a.threshold, a.min_distance) }

\* SwingDetector.process_batch: every outcome [det, events] it can have.
ProcessBatch(d, samples) ==
    IF samples = << >> THEN { [det |-> d, events |-> << >>] }
    ELSE LET a == Appended(d, samples) IN
         IF Len(a.buffer) < a.min_distance * 2
         THEN { [det |-> a, events |-> << >>] }
         ELSE { ProcessBatchWith(a, samples, peaks) :
                  peaks \in FindPeaks(Magnitudes_of(a.buffer), a.threshold, a.min_distance) }

\* ---------------------------------------------------------------- batches
\* timestamp of the last sample of the stream s (0 before the first)
LastTs(s) == IF s = << >> THEN 0 ELSE s[Len(s)].timestamp

\* what the driver chooses for each sample: its time step and its magnitude
Kinds == TimeSteps \X Magnitudes

RECURSIVE SumSteps(_, _)
SumSteps(f, i) == IF i = 0 THEN 0 ELSE f[i][1] + SumSteps(f, i - 1)

\* the batch of samples, chosen by f, that follows a stream ending at time t
BatchOf(t, f) ==
    [i \in DOMAIN f |-> Sample(t + SumSteps(f, i), f[i][2])]

\* ------------------------------------------------------------ the service
\* SwingDetector.get_statistics (without the wall-clock fields)
GetStatistics(d) ==
    [ total_samples_processed |-> d.total_samples_processed,
      total_peaks_detected    |-> d.total_peaks_detected,
      buffer_size             |-> Len(d.buffer),
      buffer_capacity         |-> d.buffer_size,
      threshold               |-> d.threshold,
      min_distance            |-> d.min_distance ]

\* GET /api/detector/stats: the statistics of every registered controller
DetectorStats == [sid \in DOMAIN active_sessions |-> GetStatistics(active_sessions[sid])]

\* session_start: SwingDetector(buffer_size=300, threshold=2.0, min_distance=50)
StartDetector == NewDetector(BufferSize, Threshold, MinDistance)

\* AutoDetector with a default threshold that differs from session_start's.
AutoDetectorOtherDefaults == NewDetector(BufferSize, Threshold + 1, MinDistance)

\* sensor_batch for an unregistered id: SwingDetector(), the defaults
AutoDetector == NewDetector(BufferSize, Threshold, MinDistance)

\* Put that rebinds the whole dict to the one entry.
PutOnly(f, k, v) == [x \in {k} |-> v]

\* dict operations on the registry
Put(f, k, v) == [x \in DOMAIN f \cup {k} |-> IF x = k THEN v ELSE f[x]]
Del(f, k) == [x \in DOMAIN f \ {k} |-> f[x]]

\* messages sent to the client
ErrorMsg == [type |-> "error"]
SessionStartedMsg(sid) == [type |-> "session_started", session_id |-> sid]
SessionEndedMsg(sid, stats) ==
    [type |-> "session_ended", session_id |-> sid, statistics |-> stats]
SwingDetectedMsg(sid, peak) ==
    [type |-> "swing_detected", session_id |-> sid, swing |-> peak]

\* the batches a client sends: empty, one bump, two bumps
Shapes ==
    { << >>,
      << <<1, 1>>, <<1, 2>>, <<1, 1>> >>,
      << <<1, 1>>, <<1, 2>>, <<1, 1>>, <<1, 1>>, <<1, 2>>, <<1, 1>> >> }

\* a client stamps its samples after the last one its session's window holds
ClientTime(sid) ==
    IF sid \in DOMAIN active_sessions THEN LastTs(active_sessions[sid].buffer) ELSE 0

NoConn == [open |-> FALSE, current_session_id |-> None, pending |-> << >>,
           pending_sid |-> None, pending_seq |-> 0, pending_live |-> FALSE]

\* the history record of one handled message: its type and session id, whether
\* the id was registered when it arrived, its samples, what was sent back, and
\* the store calls the handler made
Handled(type, sid, known, samples, replies, stores) ==
    [ type |-> type, session_id |-> sid, known |-> known,
      samples |-> samples, replies |-> replies, stores |-> stores ]

Idle(c) == conns[c].open /\ conns[c].pending = << >>

\* ----------------------------------------------------------- the database
EmptyDb == [sessions |-> << >>, raw_sensor_buffer |-> EmptyBag, shots |-> EmptyBag]

\* one call of a store function, as the handler's record of it: ok is whether
\* sqlite3 carried the call out or raised inside it
Call(op, sid, ok) == [op |-> op, session_id |-> sid, ok |-> ok]

\* the outcomes a store call can have: without the tables every call raises
StoreOutcomes == IF db_up THEN BOOLEAN ELSE {FALSE}

\* StoreRaises with no try/except in the store functions: the sqlite3 error
\* reaches the handler.
StoreRaisesPropagates(ok) == ~ok

\* whether a store call raises to the handler that made it: each store
\* function catches Exception and prints it
StoreRaises(ok) == FALSE

\* insert_session; session_id is the key of the sessions table
InsertSession(d, sid, ok) ==
    IF ok /\ sid \notin DOMAIN d.sessions
    THEN [d EXCEPT !.sessions = Put(@, sid, [ended |-> FALSE, shot_count |-> None])]
    ELSE d

RECURSIVE MinTs(_)
MinTs(samples) ==
    IF Len(samples) = 1 THEN samples[1].timestamp
    ELSE Min(samples[1].timestamp, MinTs(Tail(samples)))

RECURSIVE MaxTs(_)
MaxTs(samples) ==
    IF Len(samples) = 1 THEN samples[1].timestamp
    ELSE Max(samples[1].timestamp, MaxTs(Tail(samples)))

RawRow(sid, samples) ==
    [ session_id      |-> sid,
      start_timestamp |-> MinTs(samples),
      end_timestamp   |-> MaxTs(samples),
      sample_count    |-> Len(samples) ]

\* InsertRawSensorBuffer without the SELECT for an existing time range.
InsertRawSensorBufferNoCheck(d, sid, samples, ok) ==
    IF samples = << >> \/ ~ok THEN d
    ELSE [d EXCEPT !.raw_sensor_buffer = @ (+) SetToBag({RawRow(sid, samples)})]

\* insert_raw_sensor_buffer: each row gets a fresh buffer_id, so the table is
\* a bag of rows
InsertRawSensorBuffer(d, sid, samples, ok) ==
    IF samples = << >> \/ ~ok THEN d
    ELSE LET new == RawRow(sid, samples)
             existing_buffer ==
                 { r \in BagToSet(d.raw_sensor_buffer) :
                     /\ r.session_id = new.session_id
                     /\ r.start_timestamp = new.start_timestamp
                     /\ r.end_timestamp = new.end_timestamp }
         IN IF existing_buffer # {} THEN d
            ELSE [d EXCEPT !.raw_sensor_buffer = @ (+) SetToBag({new})]

ShotRow(sid, peak, seq) ==
    [session_id |-> sid, timestamp |-> peak.timestamp, sequence_number |-> seq]

\* insert_shot; a table that holds MaxShots rows takes no more
InsertShot(d, row, ok) ==
    IF ok /\ BagCardinality(d.shots) < MaxShots
    THEN [d EXCEPT !.shots = @ (+) SetToBag({row})]
    ELSE d

\* update_session_end
UpdateSessionEnd(d, sid, shot_count, ok) ==
    IF ok /\ sid \in DOMAIN d.sessions
    THEN [d EXCEPT !.sessions[sid] = [ended |-> TRUE, shot_count |-> shot_count]]
    ELSE d

\* ------------------------------------------------------------ the handlers
\* Detect that runs process_batch whatever the configuration says.
DetectIgnoresFlag(d, batch) == ProcessBatch(d, batch)

\* the detection step of the sensor_batch handler
Detect(d, batch) ==
    IF enabled THEN ProcessBatch(d, batch) ELSE { [det |-> d, events |-> << >>] }

\* the handlers suspended in the send of a swing whose `detector` is the
\* controller now registered for sid
Holders(sid) ==
    { c \in Conns : /\ conns[c].pending # << >>
                    /\ conns[c].pending_sid = sid
                    /\ conns[c].pending_live }

\* the registry entry of sid was replaced or deleted: the suspended handlers
\* keep the object they hold, which is no longer the registered one
Detached(cs, sid) ==
    [c \in Conns |-> IF c \in Holders(sid)
                     THEN [cs[c] EXCEPT !.pending_live = FALSE] ELSE cs[c]]

\* process_batch ran on the controller registered for sid: the suspended
\* handlers that hold it read its new total_peaks_detected
Synced(cs, sid, n) ==
    [c \in Conns |-> IF c \in Holders(sid)
                     THEN [cs[c] EXCEPT !.pending_seq = n] ELSE cs[c]]

\* the handler's loop over detected_peaks, suspended with `events` still to go
Suspended(cn, events, sid, n, live) ==
    IF events = << >>
    THEN [cn EXCEPT !.pending = << >>, !.pending_sid = None,
                    !.pending_seq = 0, !.pending_live = FALSE]
    ELSE [cn EXCEPT !.pending = events, !.pending_sid = sid,
                    !.pending_seq = n, !.pending_live = live]

SrvInit ==
    /\ enabled \in BOOLEAN
    /\ active_sessions = << >>
    /\ conns = [c \in Conns |-> NoConn]
    /\ ended = {}
    /\ received = [s \in SessionIds |-> 0]
    /\ last = Handled("none", None, FALSE, << >>, << >>, << >>)
    /\ db = EmptyDb
    /\ running = << >>
    /\ inbox = [c \in Conns |-> << >>]

\* websocket.accept()
Connect(c) ==
    /\ ~conns[c].open
    /\ conns' = [conns EXCEPT ![c] = [NoConn EXCEPT !.open = TRUE]]
    /\ last' = Handled("connect", None, FALSE, << >>, << >>, << >>)
    /\ UNCHANGED <<enabled, active_sessions, ended, received, db, db_up>>
    /\ UNCHANGED <<detVars, loopVars>>

\* SessionStart without the `if not session_id` test: a missing id is
\* registered under None and acknowledged.
SessionStartNoIdCheck(c, sid) ==
    /\ Idle(c)
    /\ \E ok \in StoreOutcomes :
         /\ active_sessions' = Put(active_sessions, sid, StartDetector)
         /\ conns' = [Detached(conns, sid) EXCEPT ![c].current_session_id = sid]
         /\ received' = [x \in DOMAIN received |-> IF x = sid THEN 0 ELSE received[x]]
         /\ db' = InsertSession(db, sid, ok)
         /\ last' = Handled("session_start", sid, sid \in DOMAIN active_sessions,
                            << >>, <<SessionStartedMsg(sid)>>,
                            <<Call("insert_session", sid, ok)>>)
    /\ UNCHANGED <<enabled, ended, db_up>>
    /\ UNCHANGED <<detVars, loopVars>>

\* {"type": "session_start", "session_id": sid}; sid is None when missing
SessionStart(c, sid) ==
    /\ Idle(c)
    /\ IF sid = None
       THEN /\ last' = Handled("session_start", sid, FALSE, << >>, <<ErrorMsg>>, << >>)
            /\ UNCHANGED <<active_sessions, conns, received, db>>
       ELSE \E ok \in StoreOutcomes :
            /\ active_sessions' = Put(active_sessions, sid, StartDetector)
            /\ conns' = [Detached(conns, sid) EXCEPT ![c].current_session_id = sid]
            /\ received' = [received EXCEPT ![sid] = 0]
            /\ db' = InsertSession(db, sid, ok)
            /\ last' = Handled("session_start", sid, sid \in DOMAIN active_sessions,
                               << >>,
                               IF StoreRaises(ok) THEN <<ErrorMsg>>
                               ELSE <<SessionStartedMsg(sid)>>,
                               <<Call("insert_session", sid, ok)>>)
    /\ UNCHANGED <<enabled, ended, db_up>>
    /\ UNCHANGED <<detVars, loopVars>>

\* a well-formed {"type": "sensor_batch", "session_id": sid, "samples": [...]},
\* up to the first await of the handler: registration, insert_raw_sensor_buffer,
\* process_batch, and insert_shot and swing_detected for the first swing; the
\* swings left are stored and sent by SendSwing
SensorBatch(c, sid, shape) ==
    LET batch == BatchOf(ClientTime(sid), shape)
        known == sid \in DOMAIN active_sessions
        reg   == IF known THEN active_sessions ELSE Put(active_sessions, sid, AutoDetector)
        got   == IF known THEN received[sid] ELSE 0
        cur   == [conns EXCEPT ![c].current_session_id = IF known THEN @ ELSE sid]
    IN /\ Idle(c)
       /\ got + Len(batch) <= MaxSessionSamples
       /\ received' = [received EXCEPT ![sid] = got + Len(batch)]
       /\ \E ok \in (IF batch = << >> THEN {TRUE} ELSE StoreOutcomes) :
            LET raw    == Call("insert_raw_sensor_buffer", sid, ok)
                stored == InsertRawSensorBuffer(db, sid, batch, ok)
            IN IF StoreRaises(ok)
               THEN /\ active_sessions' = reg
                    /\ conns' = cur
                    /\ db' = stored
                    /\ last' = Handled("sensor_batch", sid, known, batch,
                                       <<ErrorMsg>>, <<raw>>)
               ELSE \E out \in Detect(reg[sid], batch) :
                    LET n    == out.det.total_peaks_detected
                        seen == Synced(cur, sid, n)
                    IN /\ active_sessions' = Put(reg, sid, out.det)
                       /\ IF out.events = << >>
                          THEN /\ conns' = seen
                               /\ db' = stored
                               /\ last' = Handled("sensor_batch", sid, known, batch,
                                                  << >>, <<raw>>)
                          ELSE \E ok2 \in StoreOutcomes :
                               LET shot == Call("insert_shot", sid, ok2) IN
                               /\ db' = InsertShot(stored,
                                                   ShotRow(sid, Head(out.events), n), ok2)
                               /\ IF StoreRaises(ok2)
                                  THEN /\ conns' = seen
                                       /\ last' = Handled("sensor_batch", sid, known, batch,
                                                          <<ErrorMsg>>, <<raw, shot>>)
                                  ELSE /\ conns' = [seen EXCEPT ![c] =
                                                      Suspended(@, Tail(out.events), sid, n, TRUE)]
                                       /\ last' = Handled("sensor_batch", sid, known, batch,
                                                          <<SwingDetectedMsg(sid, Head(out.events))>>,
                                                          <<raw, shot>>)
       /\ UNCHANGED <<enabled, ended, db_up>>
       /\ UNCHANGED <<detVars, loopVars>>

\* the next iteration of the handler's loop over detected_peaks: insert_shot
\* with the controller's current total_peaks_detected, then swing_detected
SendSwing(c) ==
    /\ conns[c].open
    /\ conns[c].pending # << >>
    /\ \E ok \in StoreOutcomes :
         LET sid  == conns[c].pending_sid
             peak == Head(conns[c].pending)
             shot == Call("insert_shot", sid, ok)
         IN /\ db' = InsertShot(db, ShotRow(sid, peak, conns[c].pending_seq), ok)
            /\ IF StoreRaises(ok)
               THEN /\ conns' = [conns EXCEPT ![c] = Suspended(@, << >>, None, 0, FALSE)]
                    /\ last' = Handled("send_swing", sid, FALSE, << >>,
                                       <<ErrorMsg>>, <<shot>>)
               ELSE /\ conns' = [conns EXCEPT ![c] =
                                   Suspended(@, Tail(conns[c].pending), sid,
                                             conns[c].pending_seq, conns[c].pending_live)]
                    /\ last' = Handled("send_swing", sid, FALSE, << >>,
                                       <<SwingDetectedMsg(sid, peak)>>, <<shot>>)
    /\ UNCHANGED <<enabled, active_sessions, ended, received, db_up>>
    /\ UNCHANGED <<detVars, loopVars>>

\* SessionEnd that reads the statistics but leaves the entry in the registry.
SessionEndKeepsEntry(c, sid) ==
    /\ Idle(c)
    /\ IF sid \in DOMAIN active_sessions
       THEN \E ok \in StoreOutcomes :
            LET stats == GetStatistics(active_sessions[sid]) IN
            /\ db' = UpdateSessionEnd(db, sid,
                                      IF enabled THEN stats.total_peaks_detected ELSE 0, ok)
            /\ ended' = ended \cup {sid}
            /\ last' = Handled("session_end", sid, TRUE, << >>,
                               <<SessionEndedMsg(sid, stats)>>,
                               <<Call("update_session_end", sid, ok)>>)
            /\ UNCHANGED <<active_sessions, received, conns>>
       ELSE /\ last' = Handled("session_end", sid, FALSE, << >>, << >>, << >>)
            /\ UNCHANGED <<active_sessions, ended, received, conns, db>>
    /\ UNCHANGED <<enabled, db_up>>
    /\ UNCHANGED <<detVars, loopVars>>

\* {"type": "session_end", "session_id": sid}; sid is None when missing
SessionEnd(c, sid) ==
    /\ Idle(c)
    /\ IF sid \in DOMAIN active_sessions
       THEN \E ok \in StoreOutcomes :
            LET stats == GetStatistics(active_sessions[sid])
                upd   == Call("update_session_end", sid, ok)
            IN /\ db' = UpdateSessionEnd(db, sid,
                                         IF enabled THEN stats.total_peaks_detected ELSE 0,
                                         ok)
               /\ IF StoreRaises(ok)
                  THEN /\ last' = Handled("session_end", sid, TRUE, << >>,
                                          <<ErrorMsg>>, <<upd>>)
                       /\ UNCHANGED <<active_sessions, ended, received, conns>>
                  ELSE /\ active_sessions' = Del(active_sessions, sid)
                       /\ conns' = Detached(conns, sid)
                       /\ ended' = ended \cup {sid}
                       /\ received' = [received EXCEPT ![sid] = 0]
                       /\ last' = Handled("session_end", sid, TRUE, << >>,
                                          <<SessionEndedMsg(sid, stats)>>, <<upd>>)
       ELSE /\ last' = Handled("session_end", sid, FALSE, << >>, << >>, << >>)
            /\ UNCHANGED <<active_sessions, ended, received, conns, db>>
    /\ UNCHANGED <<enabled, db_up>>
    /\ UNCHANGED <<detVars, loopVars>>

\* BadMessage whose exception leaves the receive loop: the error is sent and
\* the endpoint returns, which closes the connection.
BadMessageCloses(c) ==
    /\ Idle(c)
    /\ last' = Handled("bad_message", None, FALSE, << >>, <<ErrorMsg>>, << >>)
    /\ conns' = [conns EXCEPT ![c] = NoConn]
    /\ UNCHANGED <<enabled, active_sessions, ended, received, db, db_up>>
    /\ UNCHANGED <<detVars, loopVars>>

\* text that is not JSON, an unknown or missing type, or a sensor_batch that
\* SensorBatchMessage rejects
BadMessage(c) ==
    /\ Idle(c)
    /\ last' = Handled("bad_message", None, FALSE, << >>, <<ErrorMsg>>, << >>)
    /\ UNCHANGED <<enabled, active_sessions, conns, ended, received, db, db_up>>
    /\ UNCHANGED <<detVars, loopVars>>

\* WebSocketDisconnect raised by receive_text
Disconnect(c) ==
    /\ Idle(c)
    /\ LET sid == conns[c].current_session_id IN
         IF sid # None /\ sid \in DOMAIN active_sessions
         THEN /\ active_sessions' = Del(active_sessions, sid)
              /\ conns' = [Detached(conns, sid) EXCEPT ![c] = NoConn]
              /\ received' = [received EXCEPT ![sid] = 0]
              /\ last' = Handled("disconnect", sid, TRUE, << >>, << >>, << >>)
         ELSE /\ conns' = [conns EXCEPT ![c] = NoConn]
              /\ last' = Handled("disconnect", sid, FALSE, << >>, << >>, << >>)
              /\ UNCHANGED <<active_sessions, received>>
    /\ UNCHANGED <<enabled, ended, db, db_up>>
    /\ UNCHANGED <<detVars, loopVars>>

Next ==
    \/ \E c \in Conns : Connect(c)
    \/ \E c \in Conns, sid \in SessionIds \cup {None} : SessionStart(c, sid)
    \/ \E c \in Conns, sid \in SessionIds, shape \in Shapes : SensorBatch(c, sid, shape)
    \/ \E c \in Conns : SendSwing(c)
    \/ \E c \in Conns, sid \in SessionIds \cup {None} : SessionEnd(c, sid)
    \/ \E c \in Conns : BadMessage(c)
    \/ \E c \in Conns : Disconnect(c)

\* the service started without init_database.py having created the tables:
\* every store call raises inside its store function
Init ==
    /\ SrvInit
    /\ db_up = FALSE
    /\ det = StartDetector
    /\ ingested = << >>
    /\ emitted = << >>
    /\ remaining = << >>

Spec == Init /\ [][Next]_vars

\* ----------------------------------------- the service with its database
\* the session the clients of this specification use
StoreSessionIds == {"s1"}

StoreInit ==
    /\ SrvInit
    /\ db_up = TRUE
    /\ det = StartDetector
    /\ ingested = << >>
    /\ emitted = << >>
    /\ remaining = << >>

StoreNext ==
    \/ \E c \in Conns : Connect(c)
    \/ \E c \in Conns, sid \in StoreSessionIds \cup {None} : SessionStart(c, sid)
    \/ \E c \in Conns, sid \in StoreSessionIds, shape \in Shapes : SensorBatch(c, sid, shape)
    \/ \E c \in Conns : SendSwing(c)
    \/ \E c \in Conns, sid \in StoreSessionIds \cup {None} : SessionEnd(c, sid)
    \/ \E c \in Conns : BadMessage(c)
    \/ \E c \in Conns : Disconnect(c)

SpecStore == StoreInit /\ [][StoreNext]_vars

\* ------------------------------------- connections that share one session
\* clients that feed one session id from several connections and end it:
\* they send no session_start and keep their sockets open, so a controller
\* leaves the registry through session_end only
SharedInit ==
    /\ SrvInit
    /\ db_up = TRUE
    /\ det = StartDetector
    /\ ingested = << >>
    /\ emitted = << >>
    /\ remaining = << >>

SharedNext ==
    \/ \E c \in Conns : Connect(c)
    \/ \E c \in Conns, sid \in StoreSessionIds, shape \in Shapes : SensorBatch(c, sid, shape)
    \/ \E c \in Conns : SendSwing(c)
    \/ \E c \in Conns, sid \in StoreSessionIds : SessionEnd(c, sid)

SpecShared == SharedInit /\ [][SharedNext]_vars

\* --------------------------------------------- the steps of the event loop
\* The handlers above run from one await to the next as one step.  Here the
\* sensor_batch handler is cut once more, inside process_batch, between the
\* update of total_samples_processed and the test of the buffer's length, and
\* the event loop decides which callback runs.

\* Scheduled for a loop that switches callbacks at any statement.
ScheduledPreemptive == TRUE

\* asyncio runs one callback at a time and switches only at an await: another
\* handler is taken up only when none is between two awaits
Scheduled == running = << >>

RECURSIVE QueuedLen(_, _)
QueuedLen(q, sid) ==
    IF q = << >> THEN 0
    ELSE (IF Head(q).session_id = sid THEN Len(Head(q).shape) ELSE 0)
         + QueuedLen(Tail(q), sid)

\* the samples for sid that wait in the receive queues of the connections cs
RECURSIVE Queued(_, _)
Queued(cs, sid) ==
    IF cs = {} THEN 0
    ELSE LET c == CHOOSE x \in cs : TRUE
         IN QueuedLen(inbox[c], sid) + Queued(cs \ {c}, sid)

\* a client sends a sensor_batch while the handler of its connection may be
\* busy: the message waits until receive_text returns it.  As in SensorBatch,
\* its samples are stamped after the last one the session's window holds
\* when the handler takes the message up.
Send(c, sid, shape) ==
    /\ conns[c].open
    /\ shape # << >>
    /\ Queued(Conns, sid) + Len(shape) <= MaxQueued
    /\ inbox' = [inbox EXCEPT ![c] = Append(@, [session_id |-> sid, shape |-> shape])]
    /\ UNCHANGED <<enabled, active_sessions, conns, ended, received, last, db, db_up, running>>
    /\ UNCHANGED detVars

\* process_batch after the append and the count: the test of the buffer's
\* length, find_peaks and the loop over the peaks
Scan(a, samples) ==
    IF Len(a.buffer) < a.min_distance * 2
    THEN { [det |-> a, events |-> << >>] }
    ELSE { ProcessBatchWith(a, samples, peaks) :
             peaks \in FindPeaks(Magnitudes_of(a.buffer), a.threshold, a.min_distance) }

\* receive_text returns the oldest waiting sensor_batch; the handler runs up
\* to the update of total_samples_processed inside process_batch
BeginBatch(c) ==
    /\ Scheduled
    /\ Idle(c)
    /\ inbox[c] # << >>
    /\ LET sid   == Head(inbox[c]).session_id
           batch == BatchOf(ClientTime(sid), Head(inbox[c]).shape)
           known == sid \in DOMAIN active_sessions
           reg   == IF known THEN active_sessions ELSE Put(active_sessions, sid, AutoDetector)
           got   == IF known THEN received[sid] ELSE 0
       IN \E ok \in StoreOutcomes :
            LET raw == Call("insert_raw_sensor_buffer", sid, ok) IN
            /\ got + Len(batch) <= MaxSessionSamples
            /\ inbox' = [inbox EXCEPT ![c] = Tail(@)]
            /\ received' = [received EXCEPT ![sid] = got + Len(batch)]
            /\ db' = InsertRawSensorBuffer(db, sid, batch, ok)
            /\ conns' = [conns EXCEPT ![c].current_session_id = IF known THEN @ ELSE sid]
            /\ last' = Handled("sensor_batch", sid, known, batch, << >>, <<raw>>)
            /\ IF enabled
               THEN /\ active_sessions' = Put(reg, sid, Appended(reg[sid], batch))
                    /\ running' = << [ conn |-> c, session_id |-> sid, samples |-> batch,
                                       before |-> reg[sid], known |-> known, raw |-> raw ] >>
               ELSE /\ active_sessions' = reg
                    /\ running' = << >>
    /\ UNCHANGED <<enabled, ended, db_up>>
    /\ UNCHANGED detVars

\* the handler goes on from there to its first await: the rest of
\* process_batch, then insert_shot and swing_detected for the first swing
FinishBatch(c) ==
    /\ running # << >>
    /\ running[1].conn = c
    /\ running[1].session_id \in DOMAIN active_sessions
    /\ LET sid   == running[1].session_id
           batch == running[1].samples
       IN \E out \in Scan(active_sessions[sid], batch) :
            LET n    == out.det.total_peaks_detected
                seen == Synced(conns, sid, n)
            IN /\ active_sessions' = Put(active_sessions, sid, out.det)
               /\ running' = << >>
               /\ IF out.events = << >>
                  THEN /\ conns' = seen
                       /\ db' = db
                       /\ last' = Handled("sensor_batch", sid, running[1].known, batch,
                                          << >>, <<running[1].raw>>)
                  ELSE \E ok2 \in StoreOutcomes :
                       /\ db' = InsertShot(db, ShotRow(sid, Head(out.events), n), ok2)
                       /\ conns' = [seen EXCEPT ![c] =
                                       Suspended(@, Tail(out.events), sid, n, TRUE)]
                       /\ last' = Handled("sensor_batch", sid, running[1].known, batch,
                                          <<SwingDetectedMsg(sid, Head(out.events))>>,
                                          <<running[1].raw, Call("insert_shot", sid, ok2)>>)
    /\ UNCHANGED <<enabled, ended, received, db_up, inbox>>
    /\ UNCHANGED detVars

\* ReadStats as a plain `def` endpoint, which runs in a worker thread and
\* does not wait for the event loop to be free.
ReadStatsInThread ==
    /\ last' = Handled("detector_stats", None, FALSE, << >>, <<DetectorStats>>, << >>)
    /\ UNCHANGED <<enabled, active_sessions, conns, ended, received, db, db_up, loopVars>>
    /\ UNCHANGED detVars

\* GET /api/detector/stats
ReadStats ==
    /\ Scheduled
    /\ last' = Handled("detector_stats", None, FALSE, << >>, <<DetectorStats>>, << >>)
    /\ UNCHANGED <<enabled, active_sessions, conns, ended, received, db, db_up, loopVars>>
    /\ UNCHANGED detVars

LoopInit ==
    /\ SrvInit
    /\ db_up = FALSE
    /\ det = StartDetector
    /\ ingested = << >>
    /\ emitted = << >>
    /\ remaining = << >>

\* a connection's session_start, session_end and disconnect are received
\* after the batches it sent before them
LoopNext ==
    \/ \E c \in Conns : Scheduled /\ Connect(c)
    \/ \E c \in Conns, sid \in StoreSessionIds :
         Scheduled /\ inbox[c] = << >> /\ SessionStart(c, sid)
    \/ \E c \in Conns, sid \in StoreSessionIds, shape \in Shapes : Send(c, sid, shape)
    \/ \E c \in Conns : BeginBatch(c)
    \/ \E c \in Conns : FinishBatch(c)
    \/ \E c \in Conns : Scheduled /\ SendSwing(c)
    \/ \E c \in Conns, sid \in StoreSessionIds :
         Scheduled /\ inbox[c] = << >> /\ SessionEnd(c, sid)
    \/ ReadStats
    \/ \E c \in Conns : Scheduled /\ inbox[c] = << >> /\ Disconnect(c)

SpecLoop == LoopInit /\ [][LoopNext]_vars

\* ------------------------------------------------------- the offline driver
DetInit ==
    /\ det = NewDetector(BufferSize, Threshold, MinDistance)
    /\ ingested = << >>
    /\ emitted = << >>
    /\ remaining = << >>
    /\ SrvInit
    /\ enabled = FALSE
    /\ db_up = FALSE

\* one iteration of the driver loop: detector.process_batch(batch)
Feed ==
    /\ \E n \in 0..(MaxTotal - Len(ingested)) :
         \E f \in [1..n -> Kinds] :
           LET batch == BatchOf(LastTs(ingested), f) IN
             \E out \in ProcessBatch(det, batch) :
               /\ det' = out.det
               /\ emitted' = emitted \o out.events
               /\ ingested' = ingested \o batch
    /\ UNCHANGED <<remaining, srvVars>>

DetNext == Feed

SpecDetector == DetInit /\ [][DetNext]_vars

\* ------------------------------------------------- replaying a recording
\* rotation magnitudes of a recording's rows: below, at and above the threshold
ReplayMagnitudes == {1, 2, 3}
\* rotation magnitudes of a quiet recording: all below the threshold
QuietMagnitudes == {0, 1}

\* df_to_sensor_samples: row i carries seconds_elapsed, which starts at 0 and
\* advances by one time unit per row
Recording(m) == [i \in DOMAIN m |-> Sample(i - 1, m[i])]

Flat(n, v) == [i \in 1..n |-> v]

\* the recordings replayed: every shape up to MaxRecording rows, the quiet
\* ones, and one sample above the baseline with at least min_distance rows of
\* baseline on each side
Recordings ==
    { Recording(m) : m \in UNION { [1..n -> ReplayMagnitudes] : n \in 0..MaxRecording } }
    \cup
    { Recording(m) : m \in UNION { [1..n -> QuietMagnitudes] : n \in 0..MaxRecording } }
    \cup
    UNION { { Recording(Flat(a, 1) \o <<h>> \o Flat(b, 1)) :
                b \in MinDistance..(MaxBump - 1 - a), h \in {2, 3} } :
            a \in MinDistance..(MaxBump - 1 - MinDistance) }

ReplayInit ==
    /\ remaining \in Recordings
    /\ det = NewDetector(BufferSize, Threshold, MinDistance)
    /\ ingested = << >>
    /\ emitted = << >>
    /\ SrvInit
    /\ enabled = FALSE
    /\ db_up = FALSE

\* one iteration of the loop over the recording: the next rows, as one batch
Replay ==
    /\ \E n \in 0..Len(remaining) :
         LET batch == SubSeq(remaining, 1, n) IN
           \E out \in ProcessBatch(det, batch) :
             /\ det' = out.det
             /\ emitted' = emitted \o out.events
             /\ ingested' = ingested \o batch
             /\ remaining' = SubSeq(remaining, n + 1, Len(remaining))
    /\ UNCHANGED srvVars

ReplayNext == Replay

SpecReplay == ReplayInit /\ [][ReplayNext]_vars

\* ----------------------------------------------------- the example stream
\* the __main__ example of swing_detector.py: a stream of baseline noise with
\* one half sine wave in it, fed to a fresh detector one sample at a time.
\* The 151 / 99 / 250 samples of lead, bump and tail are scaled with
\* min_distance; the lead and the tail keep at least min_distance samples.

\* baseline magnitudes: 0.5 + 0.2 * randn, below the threshold
NoiseMagnitudes == {0, 1}
\* 3.0 * sin(...): rises from about 0 to 3.0 and falls back, sampled
BumpShapes ==
    { <<1, 3, 1>>, <<0, 2, 3, 2, 0>>, <<0, 2, 3, 3, 2, 0>>, <<0, 1, 2, 3, 2, 1, 0>> }
\* time.time() when the stream starts: Unix time, or 0 for times counted
\* from the start of the stream
StartTimes == {0, 40}

Noise(lo, hi) == UNION { [1..n -> NoiseMagnitudes] : n \in lo..hi }

\* SensorSample(timestamp = time.time() + t, ...) for the i-th magnitude
StreamOf(t0, m) == [i \in DOMAIN m |-> Sample(t0 + i - 1, m[i])]

ExampleStreams ==
    { StreamOf(t0, lead \o bump \o tail) :
        t0 \in StartTimes, lead \in Noise(MinDistance, MaxLead),
        bump \in BumpShapes, tail \in Noise(MinDistance, MaxTail) }

ExampleInit ==
    /\ remaining \in ExampleStreams
    /\ det = NewDetector(BufferSize, Threshold, MinDistance)
    /\ ingested = << >>
    /\ emitted = << >>
    /\ SrvInit
    /\ enabled = FALSE
    /\ db_up = FALSE

\* one iteration of the example's loop: detector.process_sample(sample)
ProcessSample ==
    /\ remaining # << >>
    /\ \E out \in ProcessBatch(det, <<Head(remaining)>>) :
         /\ det' = out.det
         /\ emitted' = emitted \o out.events
         /\ ingested' = Append(ingested, Head(remaining))
         /\ remaining' = Tail(remaining)
    /\ UNCHANGED srvVars

ExampleNext == ProcessSample

SpecExample == ExampleInit /\ [][ExampleNext]_vars

\* ------------------------------------------------ a detector that is reset
\* a driver that replays a stream and may call detector.reset() between two
\* batches.  The stream is two windows of 2 * min_distance samples, each
\* quiet, with one sample above the baseline, or with two.

\* thresholds the driver constructs its detector with
ResetThresholds == {Threshold, Threshold + 1}

ResetWindows ==
    { Flat(2 * MinDistance, 1) }
    \cup { Flat(a, 1) \o <<h>> \o Flat(2 * MinDistance - 1 - a, 1) :
             a \in 1..(2 * MinDistance - 2), h \in {2, 3} }
    \cup { <<1, 3>> \o Flat(2 * MinDistance - 4, 1) \o <<3, 1>> }

ResetStreams ==
    { StreamOf(t0, w1 \o w2) : t0 \in StartTimes, w1 \in ResetWindows, w2 \in ResetWindows }

\* Reset that clears the buffer and the counters and leaves the gate.
ResetKeepsGate(d) ==
    [d EXCEPT !.buffer = << >>,
              !.total_samples_processed = 0,
              !.total_peaks_detected = 0]

\* SwingDetector.reset (session_start_time is a wall-clock field)
Reset(d) ==
    [d EXCEPT !.buffer = << >>,
              !.last_peak_timestamp = 0,
              !.total_samples_processed = 0,
              !.total_peaks_detected = 0]

ResetInit ==
    /\ remaining \in ResetStreams
    /\ \E th \in ResetThresholds : det = NewDetector(BufferSize, th, MinDistance)
    /\ ingested = << >>
    /\ emitted = << >>
    /\ SrvInit
    /\ enabled = FALSE
    /\ db_up = FALSE

\* detector.reset() between two batches
ResetDetector ==
    /\ det' = Reset(det)
    /\ UNCHANGED <<ingested, emitted, remaining, srvVars>>

ResetNext ==
    \/ Replay
    \/ ResetDetector

SpecReset == ResetInit /\ [][ResetNext]_vars

\* ================================================================== claims
\* what identifies an event whatever the window it was found in
EventSamples(evs) == { evs[i].sensor_data : i \in 1..Len(evs) }

\* C1: after any sequence of process_batch calls the buffer holds at most
\* buffer_size samples, and they are the last min(buffer_size, total) samples
\* of the concatenated input, in arrival order.
C1_BufferIsTail ==
    /\ Len(det.buffer) <= det.buffer_size
    /\ Len(det.buffer) = IF Len(ingested) <= det.buffer_size
                         THEN Len(ingested) ELSE det.buffer_size
    /\ \A i \in 1..Len(det.buffer) :
         det.buffer[i] = ingested[Len(ingested) - Len(det.buffer) + i]

\* the buffer has evicted a sample that differs from the one now oldest
C1_Witness ==
    /\ Len(ingested) > det.buffer_size
    /\ Len(det.buffer) = det.buffer_size
    /\ det.buffer[1] # ingested[1]

\* C2: the events emitted over all calls are in strictly increasing timestamp
\* order and each is at least min_peak_interval after the one before it; the
\* gate holds the timestamp of the latest one, so no peak is emitted twice.
C2_EventsSpaced ==
    /\ \A i \in 2..Len(emitted) :
         /\ emitted[i].timestamp > emitted[i - 1].timestamp
         /\ emitted[i].timestamp - emitted[i - 1].timestamp >= det.min_peak_interval
    /\ \A i, j \in 1..Len(emitted) :
         i # j => emitted[i].timestamp # emitted[j].timestamp
    /\ emitted # << >> => det.last_peak_timestamp = emitted[Len(emitted)].timestamp

\* two events were emitted in an earlier window; the window has slid since and
\* the scan still finds the peak emitted last, which was not emitted again
C2_Witness ==
    /\ Len(emitted) = 2
    /\ Len(ingested) > det.buffer_size
    /\ emitted[1].sensor_data = ingested[2]
    /\ \E peaks \in FindPeaks(Magnitudes_of(det.buffer), det.threshold, det.min_distance) :
         \E p \in peaks : /\ det.buffer[p] = emitted[2].sensor_data
                          /\ p # emitted[2].peak_index

\* C3: the events and the final statistics of a run do not depend on how the
\* stream was split into batches: they are those of feeding the whole stream
\* to a fresh detector as one batch.
C3_BatchingInvariant ==
    \E one \in ProcessBatch(NewDetector(det.buffer_size, det.threshold, det.min_distance),
                            ingested) :
        /\ EventSamples(one.events) = EventSamples(emitted)
        /\ Len(one.events) = Len(emitted)
        /\ GetStatistics(one.det) = GetStatistics(det)

\* C4: total_samples_processed is the number of samples ingested, whatever
\* the batch boundaries, the buffer's wrapping and the calls that returned
\* before the scan.
C4_SamplesCounted == det.total_samples_processed = Len(ingested)

\* the buffer has wrapped: more samples were counted than it holds
C4_Witness ==
    /\ Len(ingested) > det.buffer_size
    /\ det.total_samples_processed > Len(det.buffer)

\* C5: a session_start for a registered id keeps the existing controller as
\* it was.
C5_StartKeepsController ==
    [][ (last'.type = "session_start" /\ last'.known)
          => /\ last'.session_id \in DOMAIN active_sessions
             /\ active_sessions'[last'.session_id] = active_sessions[last'.session_id] ]_vars

\* C6: after a sensor_batch for an unregistered id the id is registered, with
\* the controller session_start creates plus the effect of the batch.
C6_AutoProvision ==
    (last.type = "sensor_batch" /\ ~last.known)
      => /\ last.session_id \in DOMAIN active_sessions
         /\ active_sessions[last.session_id] \in
              IF enabled
              THEN { out.det : out \in ProcessBatch(StartDetector, last.samples) }
              ELSE { StartDetector }

\* a batch auto-provisioned its session and a swing was detected in it
C6_Witness ==
    /\ last.type = "sensor_batch"
    /\ ~last.known
    /\ last.replies # << >>
    /\ active_sessions[last.session_id].total_peaks_detected > 0

\* C7: a session_end for a registered id removes the id (and nothing else)
\* from the registry and sends back exactly one session_ended message, with
\* the statistics the controller had when the message arrived.
C7_EndRemovesAndReports ==
    [][ (last'.type = "session_end" /\ last'.known)
          => LET sid == last'.session_id IN
             /\ sid \in DOMAIN active_sessions
             /\ active_sessions' = Del(active_sessions, sid)
             /\ last'.replies =
                  << [ type       |-> "session_ended",
                       session_id |-> sid,
                       statistics |-> GetStatistics(active_sessions[sid]) ] >> ]_vars

\* a session that has processed samples was ended and its statistics sent
C7_Witness ==
    /\ last.type = "session_end"
    /\ last.known
    /\ last.session_id \notin DOMAIN active_sessions
    /\ Len(last.replies) = 1
    /\ last.replies[1].statistics.total_samples_processed > 0

\* C8: a session_end for an id that is not registered is answered (a
\* not-found reply is sent).
C8_UnknownEndReported ==
    (last.type = "session_end" /\ ~last.known) => last.replies # << >>

\* C9: an id that a session_end has ended is never in the registry again.
C9_EndedIsTerminal == \A sid \in ended : sid \notin DOMAIN active_sessions

\* C10: with real-time detection disabled, the statistics of a session show
\* the samples its sensor_batch messages carried.
C10_DisabledStillCounts ==
    ~enabled =>
        \A sid \in DOMAIN DetectorStats :
            DetectorStats[sid].total_samples_processed = received[sid]

\* ------------------------------------------------------------- persistence
Types(msgs) == { msgs[i].type : i \in 1..Len(msgs) }
Ops(calls) == { calls[i].op : i \in 1..Len(calls) }

\* C11: with real-time detection disabled no swing_detected is sent and no
\* swing is stored, while every non-empty sensor_batch is passed to
\* insert_raw_sensor_buffer under its session id.
C11_DisabledStoresOnly ==
    ~enabled =>
      /\ "swing_detected" \notin Types(last.replies)
      /\ \A c \in Conns : conns[c].pending = << >>
      /\ "insert_shot" \notin Ops(last.stores)
      /\ db.shots = EmptyBag
      /\ (last.type = "sensor_batch" /\ last.samples # << >>)
           => \E i \in 1..Len(last.stores) :
                /\ last.stores[i].op = "insert_raw_sensor_buffer"
                /\ last.stores[i].session_id = last.session_id

\* detection is disabled and a batch of two bumps, long enough for a scan, was
\* handled and its raw samples stored
C11_Witness ==
    /\ ~enabled
    /\ last.type = "sensor_batch"
    /\ Len(last.samples) >= 2 * MinDistance
    /\ FindPeaks(Magnitudes_of(last.samples), Threshold, MinDistance) # {{}}
    /\ BagIn(RawRow(last.session_id, last.samples), db.raw_sensor_buffer)

SameRange(r1, r2) ==
    /\ r1.session_id = r2.session_id
    /\ r1.start_timestamp = r2.start_timestamp
    /\ r1.end_timestamp = r2.end_timestamp

OnePerRange(table) ==
    \A r1 \in BagToSet(table) :
        /\ CopiesIn(r1, table) = 1
        /\ \A r2 \in BagToSet(table) : SameRange(r1, r2) => r1 = r2

\* C18: after every insert_raw_sensor_buffer call the table holds at most one
\* row per (session_id, min timestamp, max timestamp), and a call whose triple
\* is already stored leaves the table as it was.
C18_RawStoreIdempotent ==
    [][ /\ OnePerRange(db'.raw_sensor_buffer)
        /\ ( /\ last'.type = "sensor_batch"
             /\ last'.samples # << >>
             /\ \E r \in BagToSet(db.raw_sensor_buffer) :
                  SameRange(r, RawRow(last'.session_id, last'.samples)) )
           => db'.raw_sensor_buffer = db.raw_sensor_buffer ]_vars

\* a session has received the same three samples twice, the second store call
\* was carried out, and the table holds their range once
C18_Witness ==
    /\ ~enabled
    /\ last.type = "sensor_batch"
    /\ Len(last.samples) = 3
    /\ received[last.session_id] = 6
    /\ last.stores[1].ok
    /\ CopiesIn(RawRow(last.session_id, last.samples), db.raw_sensor_buffer) = 1

Failed(h) == \E i \in 1..Len(h.stores) : ~h.stores[i].ok

\* C19: a handler in which a store call failed leaves the registry, the
\* detector and the replies as the handler does when its store calls succeed:
\* session_start registers a fresh controller and acknowledges, sensor_batch
\* runs the detection step and sends its swing, the loop over the swings
\* sends the next one, session_end removes the entry and sends the
\* statistics; no error is sent.
C19_StoreFailureInvisible ==
    [][ Failed(last') =>
          LET sid == last'.session_id
              reg == IF sid \in DOMAIN active_sessions THEN active_sessions
                     ELSE Put(active_sessions, sid, AutoDetector)
          IN CASE last'.type = "session_start" ->
                    /\ active_sessions' = Put(active_sessions, sid, StartDetector)
                    /\ last'.replies = <<SessionStartedMsg(sid)>>
               [] last'.type = "sensor_batch" ->
                    \E out \in Detect(reg[sid], last'.samples) :
                      /\ active_sessions' = Put(reg, sid, out.det)
                      /\ last'.replies =
                           IF out.events = << >> THEN << >>
                           ELSE <<SwingDetectedMsg(sid, Head(out.events))>>
               [] last'.type = "send_swing" ->
                    /\ active_sessions' = active_sessions
                    /\ \E c \in Conns :
                         /\ conns[c].pending # << >>
                         /\ conns'[c].pending = Tail(conns[c].pending)
                         /\ last'.replies =
                              <<SwingDetectedMsg(conns[c].pending_sid, Head(conns[c].pending))>>
               [] last'.type = "session_end" ->
                    /\ active_sessions' = Del(active_sessions, sid)
                    /\ last'.replies =
                         <<SessionEndedMsg(sid, GetStatistics(active_sessions[sid]))>>
               [] OTHER -> TRUE ]_vars

\* the raw batch and the shot of a sensor_batch both failed to store, and its
\* swing was detected and sent
C19_Witness ==
    /\ last.type = "sensor_batch"
    /\ Len(last.stores) = 2
    /\ \A i \in 1..Len(last.stores) : ~last.stores[i].ok
    /\ Types(last.replies) = {"swing_detected"}
    /\ active_sessions[last.session_id].total_peaks_detected > 0
    /\ db_up

\* C20: a message that cannot be dispatched is answered with exactly one
\* error, changes neither the registry nor any detector nor the database, and
\* leaves every connection as it was, the sender's open for its next message.
C20_BadMessageOnlyReplies ==
    [][ last'.type = "bad_message"
          => /\ last'.replies = <<ErrorMsg>>
             /\ active_sessions' = active_sessions
             /\ conns' = conns
             /\ db' = db
             /\ \E c \in Conns : conns'[c].open /\ conns'[c].pending = << >> ]_vars

\* a bad message was answered while a session with processed samples is
\* registered and the connection that started it is open
C20_Witness ==
    /\ last.type = "bad_message"
    /\ last.replies = <<ErrorMsg>>
    /\ \E sid \in DOMAIN active_sessions :
         /\ active_sessions[sid].total_samples_processed > 0
         /\ \E c \in Conns : conns[c].open /\ conns[c].current_session_id = sid

\* ------------------------------------------------------------ the peak scan
\* the window the scan of the last call ran on (the call scans once the
\* buffer holds 2 * min_distance samples)
Window == Magnitudes_of(det.buffer)
Scanned == Len(det.buffer) >= 2 * det.min_distance
ScanResults == FindPeaks(Window, det.threshold, det.min_distance)

\* the procedure as specified: the candidates ...
ProcCandidates(x, h) ==
    { i \in 2..(Len(x) - 1) : x[i] >= x[i - 1] /\ x[i] >= x[i + 1] /\ x[i] >= h }

\* ... taken in descending magnitude (equal magnitudes in any order) and
\* accepted when no accepted candidate is closer than d
RECURSIVE ProcAccept(_, _, _, _)
ProcAccept(x, cands, acc, d) ==
    IF cands = {} THEN {acc}
    ELSE LET top  == CHOOSE m \in {x[p] : p \in cands} : \A q \in cands : x[q] <= m
             tops == {p \in cands : x[p] = top}
         IN UNION { ProcAccept(x, cands \ {j},
                               IF \A a \in acc : a - j >= d \/ j - a >= d
                               THEN acc \cup {j} ELSE acc,
                               d) : j \in tops }

ProcResults(x, h, d) == ProcAccept(x, ProcCandidates(x, h), {}, d)

NoEqualNeighbours(x) == \A i \in 1..(Len(x) - 1) : x[i] # x[i + 1]

\* C12 as stated: the scan accepts exactly the positions the specified
\* procedure gives (candidates are the interior positions not below either
\* neighbour and not below the threshold; descending magnitude; accepted when
\* no accepted candidate is within min_distance).
C12_ScanIsProcedure ==
    Scanned => \A P \in ScanResults : P \in ProcResults(Window, det.threshold, det.min_distance)

\* C12 amended: every accepted position is a candidate of the procedure (an
\* interior local maximum, ties allowed, at or above the threshold), any two
\* accepted positions of one scan are at least min_distance apart, and on a
\* window without two equal neighbouring magnitudes the accepted positions
\* are exactly those of the procedure.
C12_ScanSound ==
    Scanned =>
      /\ \A P \in ScanResults :
            /\ P \subseteq ProcCandidates(Window, det.threshold)
            /\ \A p, q \in P : p < q => q - p >= det.min_distance
      /\ NoEqualNeighbours(Window) =>
            ScanResults = ProcResults(Window, det.threshold, det.min_distance)

\* a scan of a window without equal neighbours in which the distance rule
\* removed a candidate that is exactly at the threshold
C12_Witness ==
    /\ Scanned
    /\ NoEqualNeighbours(Window)
    /\ \E P \in ScanResults :
         /\ P # {}
         /\ \E c \in ProcCandidates(Window, det.threshold) \ P : Window[c] = det.threshold

\* the two bumps of a window that has exactly two, closer than min_distance
Bumps == SelectByHeight(Window, LocalMaxima(Window), det.threshold)
TwoCloseBumps ==
    /\ Scanned
    /\ Cardinality(Bumps) = 2
    /\ \A p, q \in Bumps : q - p < det.min_distance
Higher == { p \in Bumps : \A q \in Bumps : Window[q] <= Window[p] }
Earlier == { p \in Bumps : \A q \in Bumps : p <= q }

AboveThreshold(s) == { i \in 1..Len(s) : s[i].rotation_magnitude >= det.threshold }

\* p is the top of the single bump of s: the samples at or above the threshold
\* are one run that rises strictly to p and falls strictly after it, with at
\* least min_distance samples below the threshold on each side
IsBumpTop(s, p) ==
    LET up == AboveThreshold(s) IN
    /\ p \in up
    /\ \A i \in up : \A k \in 1..Len(s) : (i <= k /\ k <= p) \/ (p <= k /\ k <= i) => k \in up
    /\ \A i \in up : i < p => s[i].rotation_magnitude < s[i + 1].rotation_magnitude
    /\ \A i \in up : i > p => s[i].rotation_magnitude < s[i - 1].rotation_magnitude
    /\ \A i \in up : i - 1 >= det.min_distance /\ Len(s) - i >= det.min_distance

SingleBump(s) == \E p \in 1..Len(s) : IsBumpTop(s, p)

\* C14: a recording that is one bump above the threshold, with at least
\* min_distance lower samples on each side, replayed into a fresh detector
\* gives exactly one event over the whole run, at the bump's maximum sample.
C14_SingleBumpOneEvent ==
    (remaining = << >> /\ SingleBump(ingested))
      => /\ Len(emitted) = 1
         /\ \A p \in 1..Len(ingested) :
              IsBumpTop(ingested, p) => emitted[1].sensor_data = ingested[p]

AllQuiet(s) == \A i \in 1..Len(s) : s[i].rotation_magnitude < det.threshold

\* C15: while every sample ingested so far is strictly below the threshold, no
\* call has returned an event and total_peaks_detected is 0, whatever the
\* batches were.
C15_QuietNoEvents ==
    AllQuiet(ingested) => emitted = << >> /\ det.total_peaks_detected = 0

\* a window of samples below the threshold was scanned and held a local
\* maximum that the gate would have let through
C15_Witness ==
    /\ Scanned
    /\ AllQuiet(ingested)
    /\ \E p \in LocalMaxima(Window) :
         det.buffer[p].timestamp - det.last_peak_timestamp >= det.min_peak_interval
    /\ emitted = << >>

\* C16: a call that leaves the buffer with fewer than 2 * min_distance
\* samples returns nothing and leaves the gate and total_peaks_detected as
\* they were, while its samples are appended to the buffer and counted.
C16_ShortBufferDefers ==
    [][ Len(det'.buffer) < 2 * det.min_distance
          => LET new == SubSeq(ingested', Len(ingested) + 1, Len(ingested')) IN
             /\ emitted' = emitted
             /\ det'.last_peak_timestamp = det.last_peak_timestamp
             /\ det'.total_peaks_detected = det.total_peaks_detected
             /\ det'.buffer = det.buffer \o new
             /\ det'.total_samples_processed = det.total_samples_processed + Len(new) ]_vars

\* a short buffer holds a peak above the threshold that the gate would let
\* through, and nothing was emitted
C16_Witness ==
    /\ det.buffer # << >>
    /\ ~Scanned
    /\ det.total_samples_processed = Len(det.buffer)
    /\ \E P \in ScanResults : \E p \in P :
         det.buffer[p].timestamp - det.last_peak_timestamp >= det.min_peak_interval
    /\ emitted = << >>

\* C17: the first candidate the gate of a detector sees is accepted whatever
\* its timestamp: once a scan has found a peak, an event has been emitted.
C17_FirstPeakAccepted ==
    (Scanned /\ \A P \in ScanResults : P # {}) => emitted # << >>

\* ------------------------------------------------- one call of process_batch
\* the events the call of this step returned
Returned == SubSeq(emitted', Len(emitted) + 1, Len(emitted'))

\* C27: a process_batch call with an empty batch returns no event and leaves
\* the buffer, last_peak_timestamp, total_samples_processed and
\* total_peaks_detected as they were, whatever the buffer holds.
C27_EmptyBatchNoOp ==
    [][ ingested' = ingested => det' = det /\ emitted' = emitted ]_vars

\* the state an empty batch meets: a full window with a peak above the
\* threshold that no call has reported and no event emitted
C27_Witness ==
    /\ Scanned
    /\ \A P \in ScanResults : P # {}
    /\ emitted = << >>
    /\ det.total_peaks_detected = 0

\* C28: total_peaks_detected is the number of events all process_batch calls
\* on the detector have returned since it was created.
C28_PeaksCountEvents == det.total_peaks_detected = Len(emitted)

\* two events were returned and a later call added samples without a third
C28_Witness ==
    /\ Len(emitted) = 2
    /\ det.total_peaks_detected = 2
    /\ det.total_samples_processed > det.buffer_size

\* C29: every event a call returns has a peak_index strictly inside the
\* buffer as the call left it, carries the timestamp, rotation magnitude and
\* sample of the buffer at that index, and the events of the call are in
\* increasing index order.
C29_EventsDescribeWindow ==
    [][ /\ \A k \in 1..Len(Returned) :
             LET e == Returned[k] IN
             /\ 1 < e.peak_index
             /\ e.peak_index < Len(det'.buffer)
             /\ e.sensor_data = det'.buffer[e.peak_index]
             /\ e.timestamp = det'.buffer[e.peak_index].timestamp
             /\ e.rotation_magnitude = det'.buffer[e.peak_index].rotation_magnitude
        /\ \A j, k \in 1..Len(Returned) :
             j < k => Returned[j].peak_index < Returned[k].peak_index ]_vars

\* one call on a window of six samples returned two events, at two distinct
\* samples of the window it left
C29_Witness ==
    /\ Len(ingested) = BufferSize
    /\ Len(emitted) = 2
    /\ emitted[1].peak_index < emitted[2].peak_index
    /\ emitted[1].sensor_data # emitted[2].sensor_data
    /\ \A k \in 1..2 : emitted[k].sensor_data = det.buffer[emitted[k].peak_index]

\* C30: last_peak_timestamp is the timestamp of the event emitted last (its
\* start value before the first), never decreases, and a call that returns no
\* event leaves it as it was.
C30_GateFollowsEvents ==
    [][ /\ det'.last_peak_timestamp =
             (IF emitted' = << >> THEN NewDetector(0, 0, 0).last_peak_timestamp
              ELSE emitted'[Len(emitted')].timestamp)
        /\ det'.last_peak_timestamp >= det.last_peak_timestamp
        /\ emitted' = emitted => det'.last_peak_timestamp = det.last_peak_timestamp ]_vars

\* an event was emitted, the gate holds its timestamp, and the window now
\* holds a peak that the gate skips
C30_Witness ==
    /\ emitted # << >>
    /\ det.last_peak_timestamp = emitted[Len(emitted)].timestamp
    /\ Scanned
    /\ \E P \in ScanResults : \E p \in P :
         /\ det.buffer[p] \notin EventSamples(emitted)
         /\ det.buffer[p].timestamp - det.last_peak_timestamp < det.min_peak_interval

\* ------------------------------------------------------ the session registry
\* C21: a session_start without a session_id is answered with one error and
\* leaves the registry as it was; a session_start with a session_id is
\* answered with session_started and the id is registered afterwards.
C21_StartNeedsId ==
    [][ last'.type = "session_start"
          => IF last'.session_id = None
             THEN /\ last'.replies = <<ErrorMsg>>
                  /\ active_sessions' = active_sessions
             ELSE /\ last'.replies = <<SessionStartedMsg(last'.session_id)>>
                  /\ last'.session_id \in DOMAIN active_sessions' ]_vars

\* a session_start without an id was refused while a session that has
\* processed samples is registered
C21_Witness ==
    /\ last.type = "session_start"
    /\ last.session_id = None
    /\ last.replies = <<ErrorMsg>>
    /\ \E sid \in DOMAIN active_sessions :
         active_sessions[sid].total_samples_processed > 0

\* the messages that name the session they act on
SessionSteps == {"session_start", "sensor_batch", "send_swing", "session_end"}

\* C23: a session_start, a sensor_batch (with the sending of its swings) or a
\* session_end for one session id leaves every other id's registry entry, and
\* the buffer, gate and counters of its controller, as they were.
C23_SessionsIndependent ==
    [][ \A B \in SessionIds :
          (last'.type \in SessionSteps /\ last'.session_id # B)
            => /\ (B \in DOMAIN active_sessions') = (B \in DOMAIN active_sessions)
               /\ B \in DOMAIN active_sessions
                    => active_sessions'[B] = active_sessions[B] ]_vars

\* a sensor_batch of one session had a swing detected while another session,
\* which has detected swings of its own, is registered
C23_Witness ==
    /\ last.type = "sensor_batch"
    /\ "swing_detected" \in Types(last.replies)
    /\ \E B \in DOMAIN active_sessions :
         /\ B # last.session_id
         /\ active_sessions[B].total_peaks_detected > 0
         /\ Len(active_sessions[B].buffer) = BufferSize

\* C24: an id leaves the registry only in a session_end for it, and that
\* handler has called update_session_end with the final statistics; no
\* disconnect and no other message removes an entry.
C24_RemovedOnlyByFlushedEnd ==
    [][ \A sid \in DOMAIN active_sessions :
          sid \notin DOMAIN active_sessions'
            => /\ last'.type = "session_end"
               /\ last'.session_id = sid
               /\ "update_session_end" \in Ops(last'.stores) ]_vars

\* -------------------------------------------------------- the example stream
\* the samples of the stream at the top of its bump
BumpTop(s) ==
    { s[i] : i \in { j \in 1..Len(s) :
                       \A k \in 1..Len(s) :
                         s[k].rotation_magnitude <= s[j].rotation_magnitude } }

\* C26: the example stream, fed sample by sample into a detector with the
\* default parameters, gives at most one event at any time and exactly one
\* over the whole run, and that event is a sample at the top of the bump.
C26_ExampleOneSwing ==
    /\ Len(emitted) <= 1
    /\ remaining = << >>
         => /\ Len(emitted) = 1
            /\ emitted[1].sensor_data \in BumpTop(ingested)
            /\ emitted[1].timestamp = emitted[1].sensor_data.timestamp

\* the stream is used up, the one event was emitted, and its sample has since
\* left the window
C26_Witness ==
    /\ remaining = << >>
    /\ Len(emitted) = 1
    /\ Len(ingested) > BufferSize
    /\ \A i \in 1..Len(det.buffer) : det.buffer[i] # emitted[1].sensor_data

\* ------------------------------------------------------------ the event loop
\* a step of the service, as opposed to a client putting a message on the wire
ServerStep == <<active_sessions, conns, last, running, db>>' # <<active_sessions, conns, last, running, db>>

\* the controllers process_batch can leave for the batch that is under way
Outcomes == ProcessBatch(running[1].before, running[1].samples)

Snapshots(sid) ==
    IF running # << >> /\ running[1].session_id = sid
    THEN {GetStatistics(running[1].before)} \cup {GetStatistics(out.det) : out \in Outcomes}
    ELSE {GetStatistics(active_sessions[sid])}

\* C25: a request for the statistics leaves the registry and every controller
\* as they were, and what it reports for each session is the statistics of
\* that session's controller before or after a whole process_batch call,
\* never of a controller whose samples are counted and not yet scanned.
C25_StatsConsistent ==
    [][ (last'.type = "detector_stats" /\ last' # last)
          => /\ active_sessions' = active_sessions
             /\ DOMAIN last'.replies[1] = DOMAIN active_sessions
             /\ \A sid \in DOMAIN active_sessions :
                  last'.replies[1][sid] \in Snapshots(sid) ]_vars

\* the statistics of a session with a detected swing were read while a batch
\* for it waits to be handled
C25_Witness ==
    /\ last.type = "detector_stats"
    /\ \E sid \in DOMAIN last.replies[1] :
         /\ last.replies[1][sid].total_peaks_detected > 0
         /\ last.replies[1][sid] = GetStatistics(active_sessions[sid])
         /\ \E c \in Conns : inbox[c] # << >> /\ Head(inbox[c]).session_id = sid

\* ------------------------------------------- timestamps that step backwards
\* the samples this call appended
Arrived == Len(ingested') - Len(ingested)

\* the positions of the window this call left at which a peak could not have
\* been found by an earlier call: the sample or its right neighbour arrived
\* with this call
FirstSeen == { p \in 1..Len(det'.buffer) : p >= Len(det'.buffer) - Arrived }

\* C31: timestamps that step backwards within a stream are reported, and the
\* gate never computes a negative interval for the peaks they affect: once an
\* event has been emitted, a peak the scan finds for the first time is never
\* compared with a last_peak_timestamp above its own timestamp (the call
\* would have to report the regression instead of returning).
C31_RegressionReported ==
    [][ (Arrived > 0 /\ emitted # << >> /\ Len(det'.buffer) >= 2 * det.min_distance)
        => \A P \in FindPeaks(Magnitudes_of(det'.buffer), det.threshold, det.min_distance) :
             \A p \in P \cap FirstSeen :
               det'.buffer[p].timestamp - det.last_peak_timestamp >= 0 ]_vars

\* ------------------------------------------------------------------ reset
\* the detector __init__ gives for the parameters d was constructed with
FreshLike(d) == NewDetector(d.buffer_size, d.threshold, d.min_distance)

\* the step is a call of reset() that changed the detector
ResetStep == ingested' = ingested /\ det' # det

\* C32: reset() leaves the detector as __init__ made it (empty buffer, gate
\* at its start value, both counters zero) with the buffer capacity,
\* threshold and min_distance it had, so that process_batch on the detector
\* after reset has, for every batch, the outcomes it has on a fresh detector
\* with the same parameters.
C32_ResetIsFresh ==
    [][ ResetStep =>
          /\ det' = FreshLike(det)
          /\ \A n \in 0..Len(remaining) :
               ProcessBatch(det', SubSeq(remaining, 1, n))
                 = ProcessBatch(FreshLike(det), SubSeq(remaining, 1, n)) ]_vars

\* a detector that had returned an event was reset, and the samples fed
\* since then gave another event
C32_Witness ==
    /\ det.total_samples_processed < Len(ingested)
    /\ det.total_peaks_detected > 0
    /\ Len(emitted) > det.total_peaks_detected
    /\ det.threshold = Threshold + 1

\* ------------------------------------------------------ the shots table
\* the rows this step added to the shots table
NewShots == { r \in BagToSet(db'.shots) : CopiesIn(r, db'.shots) > CopiesIn(r, db.shots) }

\* the handler of connection c went through an iteration of its loop over
\* detected_peaks in this step and has swings left, detected by the
\* controller that is still registered
MoreToSend(c) ==
    /\ conns'[c].pending # << >>
    /\ conns'[c].pending # conns[c].pending
    /\ conns'[c].pending_live
    /\ conns'[c].pending_sid \in DOMAIN active_sessions'

\* C33: the k-th event detected for a session is stored with sequence_number
\* k.  The events a handler has still to store were detected after the one it
\* stores now, so the number it stores now is below the controller's count by
\* at least the number of events it has left.
C33_ShotsNumbered ==
    [][ \A c \in Conns : MoreToSend(c) =>
          \A r \in NewShots :
            r.sequence_number + Len(conns'[c].pending)
              <= active_sessions'[conns'[c].pending_sid].total_peaks_detected ]_vars

\* ------------------------------------------------- what a disconnect leaves
\* C34: a disconnect leaves in the registry no session that was started or
\* auto-provisioned through the connection and not ended.  Every entry was
\* registered through some connection, so when every connection has
\* disconnected the registry is empty.
C34_ClosedLeavesNothing ==
    (\A c \in Conns : ~conns[c].open) => active_sessions = << >>

\* connection a disconnected in this step
Closed(a) == conns[a].open /\ ~conns'[a].open

\* C35: the disconnect of a connection leaves alone the controller another
\* open connection is feeding: while the sensor_batch handler of b is sending
\* the swings of the controller registered for a session, the disconnect of a
\* different connection a leaves that entry in the registry, unchanged.
C35_DisconnectSparesOthers ==
    [][ \A a \in Conns : Closed(a) =>
          \A sid \in DOMAIN active_sessions :
            (Holders(sid) \ {a} # {}) =>
              /\ sid \in DOMAIN active_sessions'
              /\ active_sessions'[sid] = active_sessions[sid] ]_vars

\* ------------------------------------------------ swings of an ended session
\* the handler of c is suspended in the send of a swing, with swings left
\* that were detected by a controller session_end has since removed (without
\* session_start and disconnect nothing else removes one)
HoldsEnded(c) ==
    /\ conns[c].pending # << >>
    /\ ~conns[c].pending_live
    /\ conns[c].pending_sid \in ended

\* C36: once session_ended has been sent for a session, the handlers that
\* still hold swings of its controller store and send none of them.
C36_NoSwingAfterEnd ==
    [][ \A c \in Conns : HoldsEnded(c) =>
          /\ conns'[c].pending = conns[c].pending
          /\ \A r \in NewShots : r.timestamp # Head(conns[c].pending).timestamp ]_vars

\* -------------------------------------------------- the session summary
\* the rows of the shots table stored for sid
RECURSIVE Stored(_, _)
Stored(rows, sid) ==
    IF rows = {} THEN 0
    ELSE LET r == CHOOSE x \in rows : TRUE
         IN (IF r.session_id = sid THEN CopiesIn(r, db'.shots) ELSE 0)
            + Stored(rows \ {r}, sid)

\* update_session_end wrote the summary of sid in this step
Summarised(sid) ==
    /\ last'.type = "session_end"
    /\ last'.session_id = sid
    /\ last'.known
    /\ last'.stores[1].ok
    /\ sid \in DOMAIN db'.sessions

\* C37: with detection enabled, the shot_count a session_end writes is the
\* number of swings stored for the session id: it is never below the number
\* of rows the shots table holds for the id when the summary is written.
C37_SummaryCountsShots ==
    [][ \A sid \in SessionIds : (enabled /\ Summarised(sid)) =>
          db'.sessions[sid].shot_count >= Stored(BagToSet(db'.shots), sid) ]_vars

=============================================================================
